---- MODULE Spec2Model ----
(***************************************************************************)
(* Model of pygeodesy's time-function Model (Model.py) and of the chunked  *)
(* Insar stack it writes to (Insar.py).  Spec is one process driving a     *)
(* Model; GroupSpec is the ranks of one MPI communicator calling the       *)
(* methods of one Insar stack in the same order, one statement group at a  *)
(* time, with the broadcasts and the barrier of mpi4py between them.       *)
(* DriverSpec is the same ranks running getChunk then predict per chunk;   *)
(* NetSpec is one call of a Network's median filter or station partition.  *)
(*                                                                         *)
(* Conventions.  A matrix is a sequence of rows, a row a sequence of       *)
(* integers; a 3-D array is a sequence (leading axis) of sequences (y) of  *)
(* sequences (x).  Column and pixel indices keep the 0-based values of     *)
(* the Python code: column j of a row r is r[j + 1].  An object is a       *)
(* record; an attribute that was never assigned is a field missing from    *)
(* the record's DOMAIN (hasattr / AttributeError).  Array entries are      *)
(* small integers, which float32 and float64 hold exactly.  An exception  *)
(* is recorded in err and ends the process: nothing in the repository     *)
(* catches one.                                                            *)
(***************************************************************************)
EXTENDS Integers, Sequences, FiniteSets, TLC

\* ------------------------------------------------------------------ bounds
\* Largest nsplmod handed to one addModulatingSplines call.
MaxSplines == 2
\* Cap on the total number of columns injected in one behaviour.
MaxGrowth == 3
\* mvec entries are drawn from 0..MaxVal.
MaxVal == 1
\* Size of the MPI communicator of the Insar stack.
NProcs == 3
\* Leading (time) dimension of the stacks the group opens.
NTimes == 2

\* ------------------------------------------------------------ numpy helpers
RECURSIVE SumTo(_, _)
\* sum of f[k] for k in 1..n
SumTo(f, n) == IF n = 0 THEN 0 ELSE f[n] + SumTo(f, n - 1)

\* np.zeros(n) as one row
Zeros(n) == [k \in 1..n |-> 0]

\* list(range(n))
Range(n) == [k \in 1..n |-> k - 1]

\* np.arange(n, dtype=int)
Arange(n) == [k \in 1..n |-> k - 1]

\* A.shape for a 2-D array that has at least one row
Shape2(A) == <<Len(A), Len(A[1])>>

\* np.dot(A, B) for 2-D arrays
Dot(A, B) ==
    [i \in 1..Len(A) |->
        [j \in 1..Len(B[1]) |->
            SumTo([k \in 1..Len(B) |-> A[i][k] * B[k][j]], Len(B))]]

\* np.column_stack((np.zeros((nrows, n)), A))
ColumnStackZeros(nrows, n, A) == [i \in 1..nrows |-> Zeros(n) \o A[i]]

\* ------------------------------------------- TimeRepresentation (collaborator)
\* The time representations handed to Model.__init__: the dense matrix, the
\* four index lists of getFunctionalPartitions(returnstep=True) and reg_ind.
\* RepA is the spec's 3 x 5 scenario (column 2 belongs to no category);
\* RepB has a step column and an empty transient list.
RepA ==
    [ matrix    |-> << <<1, 0, 1, 0, 0>>, <<1, 1, 1, 0, 0>>, <<1, 0, 1, 1, 1>> >>,
      secular   |-> <<0>>,
      seasonal  |-> <<1>>,
      transient |-> <<3, 4>>,
      step      |-> << >>,
      reg_ind   |-> <<3, 4>> ]

RepB ==
    [ matrix    |-> << <<1, 2, 1>>, <<1, 3, 2>> >>,
      secular   |-> <<0>>,
      seasonal  |-> <<1>>,
      transient |-> << >>,
      step      |-> <<2>>,
      reg_ind   |-> << >> ]

Reps == {RepA, RepB}

\* Python's None where an array is optional (Jmat, Gmod)
None == << >>

\* Connectivity matrices (one +1 and one -1 per row) that fit a representation,
\* besides Jmat=None.
JmatsFor(rep) ==
    IF Len(rep.matrix) = 3
    THEN {None, << <<-1, 1, 0>>, <<0, -1, 1>> >>}
    ELSE {None, << <<-1, 1>>, <<1, -1>> >>}

Ranks == {0, 1}

\* ------------------------------------------------------------------- Model
\* _updatePartitionSizes with 'seasonal' missing from its tuple of names
updatePartitionSizesNoSeasonal(self) ==
    [self EXCEPT !.nsecular   = Len(self.isecular),
                 !.ntransient = Len(self.itransient),
                 !.nstep      = Len(self.istep),
                 !.nfull      = Len(self.ifull)]

\* Model._updatePartitionSizes
updatePartitionSizes(self) ==
    [self EXCEPT !.nsecular   = Len(self.isecular),
                 !.nseasonal  = Len(self.iseasonal),
                 !.ntransient = Len(self.itransient),
                 !.nstep      = Len(self.istep),
                 !.nfull      = Len(self.ifull)]

\* Model.__init__(rep, rank, Jmat)
ModelInit(rep, rank, Jmat) ==
    LET H     == rep.matrix
        base  == [ H           |-> H,
                   Ntime       |-> Shape2(H)[1],
                   npar        |-> Shape2(H)[2],
                   jstart      |-> 0,
                   jend        |-> Shape2(H)[2],
                   isecular    |-> rep.secular,
                   iseasonal   |-> rep.seasonal,
                   itransient  |-> rep.transient,
                   istep       |-> rep.step,
                   ifull       |-> Arange(Shape2(H)[2]),
                   nsecular    |-> 0,
                   nseasonal   |-> 0,
                   ntransient  |-> 0,
                   nstep       |-> 0,
                   nfull       |-> 0,
                   reg_indices |-> rep.reg_ind,
                   rank        |-> rank ]
        sized == updatePartitionSizes(base)
    IN  IF Jmat = None
        THEN sized
        ELSE [f \in DOMAIN sized \cup {"G", "Nifg"} |->
                CASE f = "G"    -> Dot(Jmat, H)
                  [] f = "Nifg" -> Len(Dot(Jmat, H))
                  [] OTHER      -> sized[f]]

\* Model.setOwnershipRange(jstart, jend)
setOwnershipRange(self, jstart, jend) ==
    [self EXCEPT !.jstart = jstart, !.jend = jend]

\* the list left as it is
ShiftListKeep(ilist, nsplmod) == ilist

\* [i + nsplmod for i in ilist]
ShiftList(ilist, nsplmod) == [k \in 1..Len(ilist) |-> ilist[k] + nsplmod]

\* addModulatingSplines with 'istep' missing from the tuple of shifted lists
addModulatingSplinesNoStep(self, nsplmod) ==
    IF nsplmod = 0 THEN self
    ELSE
      LET shifted == [self EXCEPT
                        !.isecular   = ShiftList(self.isecular, nsplmod),
                        !.iseasonal  = ShiftList(self.iseasonal, nsplmod),
                        !.itransient = ShiftList(self.itransient, nsplmod)]
          grown   == [shifted EXCEPT
                        !.iseasonal = Range(nsplmod) \o shifted.iseasonal,
                        !.npar      = self.npar + nsplmod,
                        !.ifull     = Arange(self.npar + nsplmod)]
          sized   == updatePartitionSizes(grown)
          padH    == [sized EXCEPT
                        !.H = ColumnStackZeros(self.Ntime, nsplmod, self.H)]
      IN  IF "G" \in DOMAIN self
          THEN [padH EXCEPT !.G = ColumnStackZeros(self.Nifg, nsplmod, self.G)]
          ELSE padH

\* addModulatingSplines that appends the new seasonal indices instead of
\* putting them in front
addModulatingSplinesAppend(self, nsplmod) ==
    IF nsplmod = 0 THEN self
    ELSE
      LET shifted == [self EXCEPT
                        !.isecular   = ShiftList(self.isecular, nsplmod),
                        !.iseasonal  = ShiftList(self.iseasonal, nsplmod),
                        !.itransient = ShiftList(self.itransient, nsplmod),
                        !.istep      = ShiftList(self.istep, nsplmod)]
          grown   == [shifted EXCEPT
                        !.iseasonal = shifted.iseasonal \o Range(nsplmod),
                        !.npar      = self.npar + nsplmod,
                        !.ifull     = Arange(self.npar + nsplmod)]
          sized   == updatePartitionSizes(grown)
          padH    == [sized EXCEPT
                        !.H = ColumnStackZeros(self.Ntime, nsplmod, self.H)]
      IN  IF "G" \in DOMAIN self
          THEN [padH EXCEPT !.G = ColumnStackZeros(self.Nifg, nsplmod, self.G)]
          ELSE padH

\* addModulatingSplines that pads H and leaves G as it was
addModulatingSplinesNoG(self, nsplmod) ==
    IF nsplmod = 0 THEN self
    ELSE
      LET shifted == [self EXCEPT
                        !.isecular   = ShiftList(self.isecular, nsplmod),
                        !.iseasonal  = ShiftList(self.iseasonal, nsplmod),
                        !.itransient = ShiftList(self.itransient, nsplmod),
                        !.istep      = ShiftList(self.istep, nsplmod)]
          grown   == [shifted EXCEPT
                        !.iseasonal = Range(nsplmod) \o shifted.iseasonal,
                        !.npar      = self.npar + nsplmod,
                        !.ifull     = Arange(self.npar + nsplmod)]
          sized   == updatePartitionSizes(grown)
      IN  [sized EXCEPT !.H = ColumnStackZeros(self.Ntime, nsplmod, self.H)]

\* Model.addModulatingSplines(nsplmod)
addModulatingSplines(self, nsplmod) ==
    IF nsplmod = 0 THEN self
    ELSE
      LET shifted == [self EXCEPT
                        !.isecular   = ShiftList(self.isecular, nsplmod),
                        !.iseasonal  = ShiftList(self.iseasonal, nsplmod),
                        !.itransient = ShiftList(self.itransient, nsplmod),
                        !.istep      = ShiftList(self.istep, nsplmod)]
          grown   == [shifted EXCEPT
                        !.iseasonal = Range(nsplmod) \o shifted.iseasonal,
                        !.npar      = self.npar + nsplmod,
                        !.ifull     = Arange(self.npar + nsplmod)]
          sized   == updatePartitionSizes(grown)
          padH    == [sized EXCEPT
                        !.H = ColumnStackZeros(self.Ntime, nsplmod, self.H)]
      IN  IF "G" \in DOMAIN self
          THEN [padH EXCEPT !.G = ColumnStackZeros(self.Nifg, nsplmod, self.G)]
          ELSE padH


\* ------------------------------------------------------------------- Insar
\* Spatial grid (Ny, Nx) of the stacks.
GridNy == 1
GridNx == 2

\* array[:, slice_y, slice_x]: the pixels of a pair of half-open ranges
InSlice(sl, k) == sl[1] <= k /\ k < sl[2]
SliceLen(sl) == sl[2] - sl[1]

\* h5py create_dataset(shape=data_shape): a zero-filled 3-D array
ZerosArr(data_shape) ==
    [i \in 1..data_shape[1] |->
        [y \in 1..data_shape[2] |-> [x \in 1..data_shape[3] |-> 0]]]

\* the str -> attribute dictionary of getChunk and setChunk
attr_dict ==
    [d \in {"igram", "weight", "par", "recon"} |->
        CASE d = "igram"  -> "_igram"
          [] d = "weight" -> "_weights"
          [] d = "par"    -> "_par"
          [] d = "recon"  -> "_recon"]

\* Insar.initialize on one process: the object's attributes after the call
\* (a dataset handle is the key of the dataset in the file) and, on the
\* coordinator, the file it creates.  statGen is TRUE when a
\* StationGenerator is passed.
initialize(rank, data_shape, tdec, statGen, chunk_size, recon) ==
    LET common == [ rank        |-> rank,
                    chunk_shape |-> <<chunk_size, chunk_size>>,
                    recon       |-> recon,
                    tdec        |-> tdec,
                    Ny          |-> data_shape[2],
                    Nx          |-> data_shape[3],
                    nstat       |-> data_shape[2] * data_shape[3] ]
        prim   == IF recon THEN "recon" ELSE "igram"
        pattr  == IF recon THEN "_recon" ELSE "_igram"
        bound  == [f \in DOMAIN common \cup {pattr, "_data", "_weights"} |->
                     CASE f = pattr      -> prim
                       [] f = "_data"    -> prim
                       [] f = "_weights" -> "weights"
                       [] OTHER          -> common[f]]
        made   == [k \in {prim, "weights"} |-> ZerosArr(data_shape)]
        geo    == [k \in DOMAIN made \cup {"lat", "lon", "elev"} |->
                     IF k \in DOMAIN made THEN made[k] ELSE k]
        withSG == [f \in DOMAIN bound \cup {"statGen", "statDict"} |->
                     IF f \in DOMAIN bound THEN bound[f] ELSE "statGen"]
        filled(file) ==
                  [k \in DOMAIN file \cup {"tdec", "dtype", "chunk_shape"} |->
                     CASE k = "tdec"        -> tdec
                       [] k = "dtype"       -> "insar"
                       [] k = "chunk_shape" -> <<chunk_size, chunk_size>>
                       [] OTHER             -> file[k]]
    IN  IF rank # 0
        THEN [obj |-> common, file |-> "absent", err |-> "none"]
        ELSE IF statGen
        THEN [obj |-> withSG, file |-> filled(geo), err |-> "none"]
        ELSE IF "_igram" \in DOMAIN bound
        THEN [obj |-> withSG, file |-> filled(made), err |-> "none"]
        ELSE [obj |-> bound, file |-> made, err |-> "AttributeError"]

\* arr[:, slice_y, slice_x] = dat
WriteSlice(arr, dat, slice_y, slice_x) ==
    [i \in 1..Len(arr) |->
        [y \in 1..Len(arr[i]) |->
            [x \in 1..Len(arr[i][y]) |->
                IF InSlice(slice_y, y - 1) /\ InSlice(slice_x, x - 1)
                THEN dat[i][y - slice_y[1]][x - slice_x[1]]
                ELSE arr[i][y][x]]]]

\* whether dat has the shape of arr[:, slice_y, slice_x]
FitsSlice(arr, dat, slice_y, slice_x) ==
    /\ Len(dat) = Len(arr)
    /\ \A i \in 1..Len(dat) :
         /\ Len(dat[i]) = SliceLen(slice_y)
         /\ \A y \in 1..Len(dat[i]) : Len(dat[i][y]) = SliceLen(slice_x)

\* arr[:, slice_y, slice_x]
ReadSlice(arr, slice_y, slice_x) ==
    [i \in 1..Len(arr) |->
        [y \in 1..SliceLen(slice_y) |->
            [x \in 1..SliceLen(slice_x) |->
                arr[i][slice_y[1] + y][slice_x[1] + x]]]]

\* getChunk reading the primary dataset for a name that is none of the four
getChunkLoadDefault(self, file, slice_y, slice_x, dtype) ==
    LET attr == IF dtype \in DOMAIN attr_dict THEN attr_dict[dtype]
                ELSE "_data"
    IN  IF attr \notin DOMAIN self
        THEN [x |-> None, err |-> "AttributeError"]
        ELSE [x |-> ReadSlice(file[self[attr]], slice_y, slice_x),
              err |-> "none"]

\* The coordinator's part of Insar.getChunk(slice_y, slice_x, dtype): the
\* array x it loads from the backing file, or the exception raised.
getChunkLoad(self, file, slice_y, slice_x, dtype) ==
    IF dtype \notin DOMAIN attr_dict
    THEN [x |-> None, err |-> "KeyError"]
    ELSE IF attr_dict[dtype] \notin DOMAIN self
    THEN [x |-> None, err |-> "AttributeError"]
    ELSE [x |-> ReadSlice(file[self[attr_dict[dtype]]], slice_y, slice_x),
          err |-> "none"]

\* setChunk writing on whatever rank calls it
setChunkAnyRank(self, file, dat, slice_y, slice_x, dtype) ==
    IF dtype \notin DOMAIN attr_dict
    THEN [file |-> file, err |-> "KeyError"]
    ELSE IF attr_dict[dtype] \notin DOMAIN self
    THEN [file |-> file, err |-> "AttributeError"]
    ELSE [file |-> [file EXCEPT ![self[attr_dict[dtype]]] =
                      WriteSlice(@, dat, slice_y, slice_x)],
          err  |-> "none"]

\* Insar.setChunk(dat, slice_y, slice_x, dtype) on object self with backing
\* file `file`: the file afterwards and the exception raised, if any.
setChunk(self, file, dat, slice_y, slice_x, dtype) ==
    IF self.rank # 0
    THEN [file |-> file, err |-> "none"]
    ELSE IF dtype \notin DOMAIN attr_dict
    THEN [file |-> file, err |-> "KeyError"]
    ELSE IF attr_dict[dtype] \notin DOMAIN self
    THEN [file |-> file, err |-> "AttributeError"]
    ELSE LET key == self[attr_dict[dtype]]
         IN  IF ~FitsSlice(file[key], dat, slice_y, slice_x)
             THEN [file |-> file, err |-> "TypeError"]
             ELSE [file |-> [file EXCEPT
                               ![key] = WriteSlice(@, dat, slice_y, slice_x)],
                   err  |-> "none"]


\* ----------------------------------------------------------- Model.predict
\* np.einsum('ij,jmn->imn', D[:, idx], mvec[idx, :, :])
Einsum(D, idx, mvec, cy, cx) ==
    [i \in 1..Len(D) |->
        [m \in 1..cy |->
            [n \in 1..cx |->
                SumTo([k \in 1..Len(idx) |->
                         D[i][idx[k] + 1] * mvec[idx[k] + 1][m][n]],
                      Len(idx))]]]

\* np.einsum('ijmn,jmn->imn', Gmod, mvec[idx, :, :])
EinsumMod(Gmod, idx, mvec, cy, cx) ==
    [i \in 1..Len(Gmod) |->
        [m \in 1..cy |->
            [n \in 1..cx |->
                SumTo([k \in 1..Len(idx) |->
                         Gmod[i][k][m][n] * mvec[idx[k] + 1][m][n]],
                      Len(idx))]]]

\* secular + seasonal + transient (arrays of one shape)
Add3(a, b, c) ==
    [i \in 1..Len(a) |->
        [m \in 1..Len(a[i]) |->
            [n \in 1..Len(a[i][m]) |-> a[i][m][n] + b[i][m][n] + c[i][m][n]]]]

\* mvec[ind, :, :]
TakeRows(mvec, ind) == [k \in 1..Len(ind) |-> mvec[ind[k] + 1]]

\* getattr(self, 'i%s' % key) for the keys of out
IndexList(self, key) ==
    CASE key = "secular"   -> self.isecular
      [] key = "seasonal"  -> self.iseasonal
      [] key = "transient" -> self.itransient
      [] key = "full"      -> self.ifull

\* the rank test left out
IsMasterAlways(self) == TRUE

\* if self.rank == 0
IsMaster(self) == self.rank = 0

\* the assertion written with >= for ==
DimCheckAtLeast(self, mvec) == Len(mvec) >= self.npar

\* Nt,Ny,Nx = mvec.shape; assert Nt == self.npar
DimCheck(self, mvec) == Len(mvec) = self.npar

\* the selection falling back to H when there is no G
SelectMatrixFallback(self, insar) ==
    IF insar /\ "G" \in DOMAIN self
    THEN [err |-> "none", D |-> self.G]
    ELSE [err |-> "none", D |-> self.H]

\* the selection with insar ignored after the attribute lookup
SelectMatrixIgnoreInsar(self, insar) ==
    IF insar /\ "G" \notin DOMAIN self
    THEN [err |-> "AttributeError", D |-> None]
    ELSE [err |-> "none", D |-> self.H]

\* The design matrix selected by insar: self.G raises AttributeError on a
\* Model built without Jmat.
SelectMatrix(self, insar) ==
    IF ~insar THEN [err |-> "none", D |-> self.H]
    ELSE IF "G" \in DOMAIN self THEN [err |-> "none", D |-> self.G]
    ELSE [err |-> "AttributeError", D |-> None]

\* out with the step columns summed into full
DecomposeWithStep(self, D, mvec, Gmod) ==
    LET cy        == Len(mvec[1])
        cx        == Len(mvec[1][1])
        secular   == Einsum(D, self.isecular, mvec, cy, cx)
        seasonal  == IF Gmod = None
                     THEN Einsum(D, self.iseasonal, mvec, cy, cx)
                     ELSE EinsumMod(Gmod, self.iseasonal, mvec, cy, cx)
        transient == Einsum(D, self.itransient, mvec, cy, cx)
        step      == Einsum(D, self.istep, mvec, cy, cx)
    IN  [ secular   |-> secular,
          seasonal  |-> seasonal,
          transient |-> transient,
          full      |-> Add3(Add3(secular, seasonal, transient), step, step) ]

\* the dictionary out of predict, for the selected design matrix D
Decompose(self, D, mvec, Gmod) ==
    LET cy        == Len(mvec[1])
        cx        == Len(mvec[1][1])
        secular   == Einsum(D, self.isecular, mvec, cy, cx)
        seasonal  == IF Gmod = None
                     THEN Einsum(D, self.iseasonal, mvec, cy, cx)
                     ELSE EinsumMod(Gmod, self.iseasonal, mvec, cy, cx)
        transient == Einsum(D, self.itransient, mvec, cy, cx)
    IN  [ secular   |-> secular,
          seasonal  |-> seasonal,
          transient |-> transient,
          full      |-> Add3(secular, seasonal, transient) ]

\* One setChunk call of the loop of predict, appended to the log of calls.
LogCall(st, sink, dtype, dat, chunk, objs) ==
    LET r == setChunk(objs[sink], st.store[sink], dat, chunk[1], chunk[2], dtype)
    IN  [ store |-> [st.store EXCEPT ![sink] = r.file],
          calls |-> Append(st.calls,
                           [sink |-> sink, dtype |-> dtype, dat |-> dat,
                            chunk |-> chunk, err |-> r.err]),
          err   |-> r.err ]

RECURSIVE WriteLoop(_, _, _, _, _, _, _, _)
\* for key, dataObj in data.items(): ... from item k on; an exception ends it
WriteLoop(self, outd, mvec, data, chunk, objs, k, st) ==
    IF k > Len(data) \/ st.err # "none" THEN st
    ELSE LET key  == data[k].key
             sink == data[k].sink
         IN  IF key \notin DOMAIN outd
             THEN [st EXCEPT !.err = "KeyError"]
             ELSE LET w1 == LogCall(st, sink, "recon", outd[key], chunk, objs)
                      w2 == LogCall(w1, sink, "par",
                                    TakeRows(mvec, IndexList(self, key)),
                                    chunk, objs)
                  IN  IF w1.err # "none" THEN w1
                      ELSE WriteLoop(self, outd, mvec, data, chunk, objs,
                                     k + 1, w2)

NoOut == << >>

\* Model.predict(mvec, data, chunk, insar, Gmod): the exception raised, the
\* dictionary out (NoOut when the call does not get that far), the setChunk
\* calls made and the backing files afterwards.
predict(self, objs, files, mvec, data, chunk, insar, Gmod) ==
    LET idle == [err |-> "none", outd |-> NoOut, calls |-> << >>,
                 store |-> files]
        sel  == SelectMatrix(self, insar)
    IN  IF ~IsMaster(self) THEN idle
        ELSE IF ~DimCheck(self, mvec)
        THEN [idle EXCEPT !.err = "AssertionError"]
        ELSE IF sel.err # "none"
        THEN [idle EXCEPT !.err = sel.err]
        ELSE LET outd == Decompose(self, sel.D, mvec, Gmod)
                 w    == WriteLoop(self, outd, mvec, data, chunk, objs, 1,
                                   [store |-> files, calls |-> << >>,
                                    err |-> "none"])
             IN  [err |-> w.err, outd |-> outd, calls |-> w.calls,
                  store |-> w.store]

\* ------------------------------------------------------------------ inputs
Sinks == {"s1", "s2"}
Keys == {"full", "secular", "seasonal", "transient", "step"}

\* The data dictionaries handed to predict, as the sequence of their items.
DataChoices ==
    {<< >>}
    \cup {<<[key |-> k, sink |-> s]>> : k \in Keys, s \in Sinks}
    \cup {<<[key |-> "secular", sink |-> "s1"], [key |-> "full", sink |-> "s2"]>>,
          <<[key |-> "transient", sink |-> "s2"], [key |-> "full", sink |-> "s1"]>>}

\* chunk = [slice_y, slice_x]: the last column of the grid, or all of it
ChunkChoices ==
    {<< <<0, GridNy>>, <<GridNx - 1, GridNx>> >>,
     << <<0, GridNy>>, <<0, GridNx>> >>}

\* Parameter cubes of shape (nt, cy, cx): an affine family modulo MaxVal + 1,
\* and the scenario's vector on every pixel when nt fits it.
ScenarioVec == <<2, 3, 0, 1, 1>>
MVecs(nt, cy, cx) ==
    {[j \in 1..nt |-> [m \in 1..cy |-> [n \in 1..cx |->
         (a * j + n + c) % (MaxVal + 1)]]] : a, c \in 0..MaxVal}
    \cup (IF nt = Len(ScenarioVec)
          THEN {[j \in 1..nt |-> [m \in 1..cy |-> [n \in 1..cx |-> ScenarioVec[j]]]]}
          ELSE {})

\* Modulation matrices of shape (rows, nseasonal, cy, cx) for Gmod, besides
\* Gmod=None.
GmodChoices(self, insar, cy, cx) ==
    LET rows == IF insar /\ "G" \in DOMAIN self THEN self.Nifg ELSE self.Ntime
    IN  {None,
         [i \in 1..rows |-> [k \in 1..self.nseasonal |->
             [m \in 1..cy |-> [n \in 1..cx |-> i + k]]]]}

\* The (jstart, jend) pairs handed to setOwnershipRange: any pair is accepted.
OwnershipChoices == {<<1, 2>>, <<3, 1>>}

\* ------------------------------------------------------------------- state
VARIABLES
    built,    \* the arguments of Model.__init__ and the Model it returned
    model,    \* the Model object of this process
    sinks,    \* the Insar objects of this process, by name
    store,    \* the backing file of each Insar object
    nadded,   \* total nsplmod handed to addModulatingSplines so far
    last,     \* the last call made and its arguments
    out,      \* the dictionary out of the last predict call
    err,      \* the exception the last call raised, "none" if it returned
    calls,    \* the setChunk calls the last predict call made, in order
    script,   \* the Insar calls every process of the group makes, in order
    proc,     \* per rank: its Insar object, its place in the script, its locals
    h5,       \* the backing file of the group's stack (<< >> before it exists)
    comm,     \* the collectives rank 0 has entered so far, in order
    fate,     \* what becomes of the job once a rank has raised
    net       \* the last call made on the Networks of a group, and its results

\* the state of the group of processes sharing one Insar stack
gvars == <<script, proc, h5, comm, fate>>

vars == <<built, model, sinks, store, nadded, last, out, err, calls, gvars, net>>

\* Leading dimensions tried for mvec: the current npar, one more, and the
\* npar the model had at construction.
LeadingDims == {model.npar, model.npar + 1, model.npar - nadded}

\* Rows of the stack a sink is created for: s1 holds time-domain
\* reconstructions, s2 an interferogram stack.
SinkShape(s, rep, Jmat) ==
    IF s = "s1" \/ Jmat = None
    THEN <<Len(rep.matrix), GridNy, GridNx>>
    ELSE <<Len(Jmat), GridNy, GridNx>>

\* The state after the driver has built the Model and every process has
\* called initialize on the two stacks: s1 with recon=True and a
\* StationGenerator, s2 with the defaults.  The files are the ones the
\* coordinator created.
Init ==
    \E rep \in Reps, rank \in Ranks :
      \E Jmat \in JmatsFor(rep) :
        /\ model = ModelInit(rep, rank, Jmat)
        /\ built = [rep |-> rep, rank |-> rank, Jmat |-> Jmat,
                    model |-> ModelInit(rep, rank, Jmat)]
        /\ sinks = [s \in Sinks |->
                      initialize(rank, SinkShape(s, rep, Jmat),
                                 Range(SinkShape(s, rep, Jmat)[1]),
                                 s = "s1", GridNx, s = "s1").obj]
        /\ store = [s \in Sinks |->
                      initialize(0, SinkShape(s, rep, Jmat),
                                 Range(SinkShape(s, rep, Jmat)[1]),
                                 s = "s1", GridNx, s = "s1").file]
        /\ nadded = 0
        /\ last = [op |-> "init"]
        /\ out = NoOut
        /\ err = "none"
        /\ calls = << >>
        /\ script = << >>
        /\ proc = << >>
        /\ h5 = << >>
        /\ comm = << >>
        /\ fate = "none"
        /\ net = << >>

\* model.setOwnershipRange(jstart, jend)
SetOwnershipRange ==
    /\ err = "none"
    /\ \E r \in OwnershipChoices :
        /\ model' = setOwnershipRange(model, r[1], r[2])
        /\ last' = [op |-> "setOwnershipRange", jstart |-> r[1], jend |-> r[2]]
        /\ out' = NoOut
        /\ err' = "none"
        /\ calls' = << >>
        /\ UNCHANGED <<built, sinks, store, nadded, gvars, net>>

\* model.addModulatingSplines(nsplmod)
AddModulatingSplines ==
    /\ err = "none"
    /\ \E nsplmod \in 0..MaxSplines :
        /\ nadded + nsplmod <= MaxGrowth
        /\ model' = addModulatingSplines(model, nsplmod)
        /\ nadded' = nadded + nsplmod
        /\ last' = [op |-> "addModulatingSplines", nsplmod |-> nsplmod]
        /\ out' = NoOut
        /\ err' = "none"
        /\ calls' = << >>
        /\ UNCHANGED <<built, sinks, store, gvars, net>>

\* model.predict(mvec, data, chunk, insar, Gmod).  An exception is not caught
\* by any caller in the repository and ends the process, so no call follows
\* one that raised.  A predict call that returns leaves the model and the
\* files as they were (only the call log differs), so a predict right after
\* another reaches no state that one call does not reach.
Predict ==
    /\ err = "none"
    /\ last.op # "predict"
    /\ \E chunk \in ChunkChoices, insar \in BOOLEAN, data \in DataChoices,
          nt \in LeadingDims \ {0} :
         \E mvec \in MVecs(nt, SliceLen(chunk[1]), SliceLen(chunk[2])) :
           \E Gmod \in GmodChoices(model, insar, SliceLen(chunk[1]),
                                   SliceLen(chunk[2])) :
             \E r \in {predict(model, sinks, store, mvec, data, chunk,
                                insar, Gmod)} :
               /\ store' = r.store
               /\ out' = r.outd
               /\ err' = r.err
               /\ calls' = r.calls
               /\ last' = [op |-> "predict", mvec |-> mvec, data |-> data,
                           chunk |-> chunk, insar |-> insar, Gmod |-> Gmod]
               /\ UNCHANGED <<built, model, sinks, nadded, gvars, net>>

Next == SetOwnershipRange \/ AddModulatingSplines \/ Predict

Spec == Init /\ [][Next]_vars

\* ---------------------------------------------- the group of one Insar stack
\* The ranks of the communicator; rank 0 is the one holding the file.
Procs == 0..(NProcs - 1)
Workers == Procs \ {0}

\* Insar.__init__ on one rank
InsarNew(rank) == [rank |-> rank, n_workers |-> NProcs]

\* self.attr = val
Bind(self, attr, val) ==
    [f \in DOMAIN self \cup {attr} |-> IF f = attr THEN val ELSE self[f]]

\* the assignments of the record new, made on self
BindAll(self, new) ==
    [f \in DOMAIN self \cup DOMAIN new |->
        IF f \in DOMAIN new THEN new[f] ELSE self[f]]

\* x.shape of a 3-D array
Shape3(x) == <<Len(x), Len(x[1]), Len(x[1][1])>>

\* self.clear() of the base class TimeSeries: the stack is left with no
\* dataset handle and no connectivity matrix (Jmat is None), whatever was
\* loaded before.
clear(self) ==
    [f \in {"rank", "n_workers", "Jmat"} |->
        IF f = "Jmat" THEN None ELSE self[f]]

\* an except block that swallows the KeyError and goes on with the weights
\* as the data of the stack
exceptKeyErrorSwallow(partial, file) ==
    [obj |-> Bind(Bind(partial, "_data", "weights"), "tdec", None),
     err |-> "none"]

\* The except KeyError block of loadStationH5, entered with the attributes
\* the try block has bound so far: it binds recon and tdec, and a key the
\* file lacks raises KeyError out of the call.
exceptKeyError(partial, file) ==
    IF "recon" \notin DOMAIN file
    THEN [obj |-> partial, err |-> "KeyError"]
    ELSE IF "tdec" \notin DOMAIN file
    THEN [obj |-> Bind(Bind(partial, "_recon", "recon"), "_data", "recon"),
          err |-> "KeyError"]
    ELSE [obj |-> Bind(Bind(Bind(partial, "_recon", "recon"),
                            "_data", "recon"), "tdec", file["tdec"]),
          err |-> "none"]

\* Insar.loadStationH5 up to the broadcasts, on one rank: the object's
\* attributes afterwards and the exception raised, if any.  file is the
\* content of the HDF5 file of the path given.  A handle is the key of its
\* dataset.
loadStationH5Read(self, file) ==
    LET has(k)  == k \in DOMAIN file
        s0      == clear(self)
        opened  == Bind(s0, "h5file", "r")
        \* the try block: it stops at the first key the file lacks
        t1      == IF has("igram")
                   THEN Bind(Bind(opened, "_igram", "igram"), "_data", "igram")
                   ELSE opened
        t2      == IF has("igram") /\ has("tdec")
                   THEN Bind(t1, "tdec", file["tdec"]) ELSE t1
        t3      == IF has("igram") /\ has("tdec") /\ has("tinsar")
                   THEN Bind(t2, "tinsar", file["tinsar"]) ELSE t2
        tryOK   == has("igram") /\ has("tdec") /\ has("tinsar") /\ has("Jmat")
        prim    == IF tryOK
                   THEN [obj |-> Bind(t3, "Jmat", file["Jmat"]), err |-> "none"]
                   ELSE exceptKeyError(t3, file)
        w       == Bind(prim.obj, "_weights", "weights")
        sg      == Bind(Bind(w, "statGen", "statGen"), "statDict", "statGen")
        cs      == Bind(sg, "chunk_shape", file["chunk_shape"])
    IN  IF self.rank # 0
        THEN [obj |-> BindAll(s0, [tdec |-> None, Jmat |-> None,
                                   chunk_shape |-> None, data_shape |-> None]),
              err |-> "none"]
        ELSE IF prim.err # "none"   THEN prim
        ELSE IF ~has("weights")     THEN [obj |-> prim.obj, err |-> "KeyError"]
        ELSE IF ~({"lat", "lon", "elev"} \subseteq DOMAIN file)
                                    THEN [obj |-> w, err |-> "KeyError"]
        ELSE IF ~has("chunk_shape") THEN [obj |-> sg, err |-> "KeyError"]
        ELSE [obj |-> Bind(cs, "data_shape", Shape3(file[cs["_data"]])),
              err |-> "none"]

\* the attributes loadStationH5 broadcasts from rank 0, in order
LoadAttrs == <<"tdec", "Jmat", "chunk_shape", "data_shape">>

\* Ny and Nx taken in the other order
BindGridSwapped(self) ==
    BindAll(self, [Ny    |-> self.data_shape[3],
                   Nx    |-> self.data_shape[2],
                   nstat |-> self.data_shape[2] * self.data_shape[3]])

\* self.Ny, self.Nx = self.data_shape[1:]; self.nstat = self.Ny * self.Nx
BindGrid(self) ==
    BindAll(self, [Ny    |-> self.data_shape[2],
                   Nx    |-> self.data_shape[3],
                   nstat |-> self.data_shape[2] * self.data_shape[3]])

\* a buffer of one row along the leading axis, whatever x_shape says
EmptyArrOneRow(x_shape) ==
    [i \in 1..1 |->
        [y \in 1..x_shape[2] |-> [x \in 1..x_shape[3] |-> 0 - 1]]]

\* np.empty(x_shape, dtype=np.float32): a buffer of that shape whose
\* entries are whatever the memory held (shown as -1, no entry of a stack)
EmptyArr(x_shape) ==
    [i \in 1..x_shape[1] |->
        [y \in 1..x_shape[2] |-> [x \in 1..x_shape[3] |-> 0 - 1]]]

\* comm.Bcast([x, MPI.FLOAT], root=0) on a receiver: the entries of the
\* buffer x are overwritten, in order, by those rank 0 sent
BcastInto(x, sent) ==
    [i \in DOMAIN x |->
        [y \in DOMAIN x[i] |-> [n \in DOMAIN x[i][y] |-> sent[i][y][n]]]]

\* ------------------------------------------------------- inputs of the group
\* Entries of the arrays found in a file that is loaded: none is zero, and
\* those of igram differ from those of recon.
StackArr(base) ==
    [i \in 1..NTimes |->
        [y \in 1..GridNy |-> [x \in 1..GridNx |-> base + i + x]]]

\* An HDF5 file holding the keys given.
H5With(keys) ==
    [k \in keys |->
        CASE k = "igram"       -> StackArr(0)
          [] k = "recon"       -> StackArr(NTimes)
          [] k = "weights"     -> StackArr(NTimes + NTimes)
          [] k = "tdec"        -> Range(NTimes)
          [] k = "tinsar"      -> Range(NTimes)
          [] k = "Jmat"        -> [i \in 1..NTimes |-> Zeros(NTimes)]
          [] k = "chunk_shape" -> <<GridNx, GridNx>>
          [] OTHER             -> k]

\* The files handed to loadStationH5: the raw shape, the reconstruction
\* shape, both, a raw file lacking tinsar that also holds recon, and files
\* of neither shape or lacking the weights.
RawKeys == {"igram", "tdec", "tinsar", "Jmat"}
ReconKeys == {"recon", "tdec"}
RestKeys == {"weights", "lat", "lon", "elev", "chunk_shape"}
LoadFiles ==
    {H5With(K \cup RestKeys) :
        K \in {RawKeys, ReconKeys, RawKeys \cup ReconKeys,
               {"igram", "tdec", "Jmat", "recon"},
               {"igram", "tdec", "tinsar"}, {"tdec"}, {"recon"}}}
    \cup {H5With(RawKeys \cup (RestKeys \ {"weights"}))}

\* The dataset names handed to getChunk and setChunk: the four of attr_dict
\* and one that is none of them.
RoleNames == DOMAIN attr_dict \cup {"phase"}

\* Blocks of the shape of a chunk, no entry zero.
Blocks(chunk) ==
    {[i \in 1..NTimes |->
        [y \in 1..SliceLen(chunk[1]) |->
            [x \in 1..SliceLen(chunk[2]) |-> 1 + ((i + x + v) % (MaxVal + 1))]]] :
        v \in 0..MaxVal}

\* What the driver makes every rank call, in order: initialize, one
\* setChunk and one getChunk of the same chunk ...
WriteScripts ==
    UNION {
      {<<[op |-> "initialize", recon |-> r, statGen |-> g, writable |-> w],
         [op |-> "setChunk", dat |-> d, slice_y |-> c[1], slice_x |-> c[2],
          dtype |-> ds],
         [op |-> "getChunk", slice_y |-> c[1], slice_x |-> c[2],
          dtype |-> dg]>> :
          r \in BOOLEAN, g \in BOOLEAN, w \in BOOLEAN, d \in Blocks(c),
          ds \in RoleNames, dg \in RoleNames} : c \in ChunkChoices}

\* ... or loadStationH5 of an existing file and one getChunk.
ReadScripts ==
    {<<[op |-> "loadStationH5"],
       [op |-> "getChunk", slice_y |-> c[1], slice_x |-> c[2], dtype |-> dg]>> :
        c \in ChunkChoices, dg \in RoleNames}

\* ------------------------------------------------------ steps of the group
\* The state after every rank has constructed its Insar object: no call
\* made yet.  Either no file exists and the script creates one, or the
\* file to load exists.
GroupInit ==
    /\ \/ /\ h5 = << >>
          /\ script \in WriteScripts
       \/ /\ h5 \in LoadFiles
          /\ script \in ReadScripts
    /\ proc = [p \in Procs |->
                 [obj |-> InsarNew(p), call |-> 1, pc |-> "call", step |-> 0,
                  x_shape |-> None, x |-> None, ret |-> None,
                  err |-> "none", ncoll |-> 0]]
    /\ comm = << >>
    /\ fate = "none"
    /\ net = << >>
    /\ built = << >>
    /\ model = << >>
    /\ sinks = << >>
    /\ store = << >>
    /\ nadded = 0
    /\ last = [op |-> "init"]
    /\ out = NoOut
    /\ err = "none"
    /\ calls = << >>

\* the variables of the single-process Model part
mvars == <<built, model, sinks, store, nadded, last, out, err, calls>>

\* rank p is about to make the call op of the script
AtCall(p, op) ==
    /\ proc[p].pc = "call"
    /\ proc[p].call <= Len(script)
    /\ script[proc[p].call].op = op

\* rank p has made every call of the script
Finished(p) == proc[p].pc = "call" /\ proc[p].call > Len(script)

\* rank p returns from its call and goes on two calls further
ReturnedSkip(p, obj) ==
    [proc[p] EXCEPT !.obj = obj, !.call = @ + 2, !.pc = "call", !.step = 0]

\* rank p returns from its call with its attributes obj
Returned(p, obj) ==
    [proc[p] EXCEPT !.obj = obj, !.call = @ + 1, !.pc = "call", !.step = 0]

\* An exception leaves rank p's call: nothing catches it and rank p ends.
\* The repository calls no MPI Abort; whether the other ranks are killed
\* (the launcher notices the exit) or stay as they are (the dying rank
\* waits in MPI_Finalize) is up to the MPI runtime.
Raised(p, obj, e) ==
    /\ proc' = [proc EXCEPT ![p] = [@ EXCEPT !.obj = obj, !.pc = "dead",
                                            !.err = e]]
    /\ IF fate = "none" THEN fate' \in {"hang", "abort"} ELSE fate' = fate

\* rank 0 goes on without entering the collective
PostedNothing(kind, val) == comm

\* rank 0 enters its next collective: comm.bcast / comm.Bcast of val, or
\* comm.Barrier
Posted(kind, val) == Append(comm, [kind |-> kind, val |-> val])

\* the collective rank p enters next is a broadcast rank 0 has entered
CanReceive(p) ==
    /\ Len(comm) > proc[p].ncoll
    /\ comm[proc[p].ncoll + 1].kind = "bcast"

\* what rank p receives from it
Received(p) == comm[proc[p].ncoll + 1].val

\* a barrier that every rank leaves at once
BarrierDoneAlone(k) == TRUE

\* comm.Barrier(): collective k of the communicator returns on a rank once
\* every rank has entered it
BarrierDone(k) ==
    \A q \in Procs :
        \/ proc[q].ncoll >= k
        \/ proc[q].pc = "Barrier" /\ proc[q].ncoll = k - 1

\* Insar.initialize up to and including the call of comm.Barrier().  On a
\* path that cannot be written h5py.File raises on rank 0.
Initialize ==
    \E p \in Procs :
      /\ AtCall(p, "initialize")
      /\ LET c == script[proc[p].call]
             r == initialize(p, <<NTimes, GridNy, GridNx>>, Range(NTimes),
                             c.statGen, GridNx, c.recon)
         IN  IF p = 0 /\ ~c.writable
             THEN /\ Raised(p, BindAll(proc[p].obj,
                                      [f \in DOMAIN r.obj \ {"_igram", "_recon",
                                           "_data", "_weights", "statGen",
                                           "statDict"} |-> r.obj[f]]),
                            "OSError")
                  /\ UNCHANGED <<h5, comm>>
             ELSE IF r.err # "none"
             THEN /\ Raised(p, BindAll(proc[p].obj, r.obj), r.err)
                  /\ h5' = r.file
                  /\ UNCHANGED comm
             ELSE /\ proc' = [proc EXCEPT ![p] =
                                [@ EXCEPT !.obj = BindAll(proc[p].obj, r.obj),
                                          !.pc = "Barrier"]]
                  /\ h5' = IF p = 0 THEN r.file ELSE h5
                  /\ comm' = IF p = 0 THEN Posted("Barrier", None) ELSE comm
                  /\ UNCHANGED fate
      /\ UNCHANGED <<script, mvars, net>>

\* comm.Barrier() returns on rank p, and with it initialize
BarrierLeave ==
    \E p \in Procs :
      /\ proc[p].pc = "Barrier"
      /\ BarrierDone(proc[p].ncoll + 1)
      /\ proc' = [proc EXCEPT ![p] =
                    [Returned(p, proc[p].obj) EXCEPT !.ncoll = @ + 1]]
      /\ UNCHANGED <<script, h5, comm, fate, mvars, net>>

\* Insar.loadStationH5 up to the first broadcast
LoadStationH5 ==
    \E p \in Procs :
      /\ AtCall(p, "loadStationH5")
      /\ LET r == loadStationH5Read(proc[p].obj, h5)
         IN  IF r.err # "none"
             THEN Raised(p, r.obj, r.err)
             ELSE /\ proc' = [proc EXCEPT ![p] =
                                [@ EXCEPT !.obj = r.obj, !.pc = "bcast",
                                          !.step = 1]]
                  /\ UNCHANGED fate
      /\ UNCHANGED <<script, h5, comm, mvars, net>>

\* the attributes of rank p once LoadAttrs[k] is assigned: after the last
\* one loadStationH5 derives Ny, Nx and nstat
LoadAssigned(self, k, val) ==
    IF k = Len(LoadAttrs)
    THEN BindGrid(Bind(self, LoadAttrs[k], val))
    ELSE Bind(self, LoadAttrs[k], val)

\* self.attr = self.comm.bcast(self.attr, root=0) on rank 0, for the
\* attribute the call has come to
LoadBcast ==
    /\ proc[0].pc = "bcast"
    /\ LET k == proc[0].step
           a == LoadAttrs[k]
           o == proc[0].obj
       IN  IF a \notin DOMAIN o
           THEN /\ Raised(0, o, "AttributeError")
                /\ UNCHANGED comm
           ELSE /\ comm' = Posted("bcast", o[a])
                /\ proc' = [proc EXCEPT ![0] =
                              IF k = Len(LoadAttrs)
                              THEN [Returned(0, LoadAssigned(o, k, o[a]))
                                      EXCEPT !.ncoll = @ + 1]
                              ELSE [@ EXCEPT !.step = k + 1, !.ncoll = @ + 1]]
                /\ UNCHANGED fate
    /\ UNCHANGED <<script, h5, mvars, net>>

\* the same statement on a worker: it waits for what rank 0 sends
LoadRecv ==
    \E p \in Workers :
      /\ proc[p].pc = "bcast"
      /\ CanReceive(p)
      /\ LET k == proc[p].step
             o == LoadAssigned(proc[p].obj, k, Received(p))
         IN  proc' = [proc EXCEPT ![p] =
                        IF k = Len(LoadAttrs)
                        THEN [Returned(p, o) EXCEPT !.ncoll = @ + 1]
                        ELSE [@ EXCEPT !.obj = o, !.step = k + 1,
                                       !.ncoll = @ + 1]]
      /\ UNCHANGED <<script, h5, comm, fate, mvars, net>>

\* Insar.getChunk up to the first broadcast: rank 0 loads x from the file
\* and takes its shape, a worker sets x_shape = None
GetChunk ==
    \E p \in Procs :
      /\ AtCall(p, "getChunk")
      /\ LET c == script[proc[p].call]
             r == getChunkLoad(proc[p].obj, h5, c.slice_y, c.slice_x, c.dtype)
         IN  IF p # 0
             THEN /\ proc' = [proc EXCEPT ![p] =
                                [@ EXCEPT !.x_shape = None, !.x = None,
                                          !.pc = "recvShape"]]
                  /\ UNCHANGED fate
             ELSE IF r.err # "none"
             THEN Raised(p, proc[p].obj, r.err)
             ELSE /\ proc' = [proc EXCEPT ![p] =
                                [@ EXCEPT !.x = r.x, !.x_shape = Shape3(r.x),
                                          !.pc = "bcastShape"]]
                  /\ UNCHANGED fate
      /\ UNCHANGED <<script, h5, comm, mvars, net>>

\* x_shape = self.comm.bcast(x_shape, root=0) on rank 0
GetChunkBcastShape ==
    /\ proc[0].pc = "bcastShape"
    /\ comm' = Posted("bcast", proc[0].x_shape)
    /\ proc' = [proc EXCEPT ![0] =
                  [@ EXCEPT !.pc = "bcastData", !.ncoll = @ + 1]]
    /\ UNCHANGED <<script, h5, fate, mvars, net>>

\* the same statement on a worker, and the allocation of its buffer x
GetChunkRecvShape ==
    \E p \in Workers :
      /\ proc[p].pc = "recvShape"
      /\ CanReceive(p)
      /\ proc' = [proc EXCEPT ![p] =
                    [@ EXCEPT !.x_shape = Received(p),
                              !.x = EmptyArr(Received(p)),
                              !.pc = "recvData", !.ncoll = @ + 1]]
      /\ UNCHANGED <<script, h5, comm, fate, mvars, net>>

\* self.comm.Bcast([x, MPI.FLOAT], root=0) and return x, on rank 0
GetChunkBcastData ==
    /\ proc[0].pc = "bcastData"
    /\ comm' = Posted("bcast", proc[0].x)
    /\ proc' = [proc EXCEPT ![0] =
                  [Returned(0, proc[0].obj) EXCEPT !.ret = proc[0].x,
                                                   !.ncoll = @ + 1]]
    /\ UNCHANGED <<script, h5, fate, mvars, net>>

\* the same statements on a worker
GetChunkRecvData ==
    \E p \in Workers :
      /\ proc[p].pc = "recvData"
      /\ CanReceive(p)
      /\ proc' = [proc EXCEPT ![p] =
                    [Returned(p, proc[p].obj)
                       EXCEPT !.x = BcastInto(proc[p].x, Received(p)),
                              !.ret = BcastInto(proc[p].x, Received(p)),
                              !.ncoll = @ + 1]]
      /\ UNCHANGED <<script, h5, comm, fate, mvars, net>>

\* Insar.setChunk, the whole call
SetChunk ==
    \E p \in Procs :
      /\ AtCall(p, "setChunk")
      /\ LET c == script[proc[p].call]
             r == setChunk(proc[p].obj, h5, c.dat, c.slice_y, c.slice_x,
                           c.dtype)
         IN  IF r.err # "none"
             THEN /\ Raised(p, proc[p].obj, r.err)
                  /\ UNCHANGED h5
             ELSE /\ proc' = [proc EXCEPT ![p] = Returned(p, proc[p].obj)]
                  /\ h5' = r.file
                  /\ UNCHANGED fate
      /\ UNCHANGED <<script, comm, mvars, net>>

\* The launcher ends the job after a rank has died.
KillJob ==
    /\ fate = "abort"
    /\ \E p \in Procs : proc[p].pc \notin {"dead", "aborted"}
    /\ proc' = [p \in Procs |->
                  IF proc[p].pc = "dead" THEN proc[p]
                  ELSE [proc[p] EXCEPT !.pc = "aborted"]]
    /\ UNCHANGED <<script, h5, comm, fate, mvars, net>>

GroupNext ==
    \/ Initialize
    \/ BarrierLeave
    \/ LoadStationH5
    \/ LoadBcast
    \/ LoadRecv
    \/ GetChunk
    \/ GetChunkBcastShape
    \/ GetChunkRecvShape
    \/ GetChunkBcastData
    \/ GetChunkRecvData
    \/ SetChunk
    \/ KillJob

\* The group of NProcs ranks running one script on one stack.
GroupSpec == GroupInit /\ [][GroupNext]_vars

\* ------------------------------------------- a driver working chunk by chunk
\* The representations whose design matrix has the rows of the stack.
DriverReps == {rep \in Reps : Len(rep.matrix) = NTimes}

\* What the driver makes every rank call: initialize of a reconstruction
\* stack with a StationGenerator, then for each of two chunks getChunk and
\* model.predict(mvec, data, chunk) with that stack as the only sink.  The
\* parameters of the first chunk vary, those of the second are fixed.
DriverScripts ==
    UNION {
      {<<[op |-> "initialize", recon |-> TRUE, statGen |-> TRUE,
          writable |-> TRUE],
         [op |-> "getChunk", slice_y |-> c1[1], slice_x |-> c1[2],
          dtype |-> "recon"],
         [op |-> "predict", mvec |-> m1, data |-> data, chunk |-> c1],
         [op |-> "getChunk", slice_y |-> c2[1], slice_x |-> c2[2],
          dtype |-> "recon"],
         [op |-> "predict", mvec |-> m2, data |-> data, chunk |-> c2]>> :
          m1 \in MVecs(Len(rep.matrix[1]), SliceLen(c1[1]), SliceLen(c1[2])),
          m2 \in {[j \in 1..Len(rep.matrix[1]) |->
                     [m \in 1..SliceLen(c2[1]) |->
                        [n \in 1..SliceLen(c2[2]) |->
                           (j + n) % (MaxVal + 1)]]]},
          data \in {<< >>, <<[key |-> "full", sink |-> "s1"]>>,
                    <<[key |-> "secular", sink |-> "s1"]>>}} :
        rep \in DriverReps, c1 \in ChunkChoices, c2 \in ChunkChoices}

\* The state after every rank has built its Model and its Insar object.
\* calls collects, per predict call rank 0 has made, the setChunk calls of
\* that call.
DriverInit ==
    /\ h5 = << >>
    /\ \E rep \in DriverReps :
         /\ built = [rep |-> rep]
         /\ model = [p \in Procs |-> ModelInit(rep, p, None)]
         /\ script \in {s \in DriverScripts :
                          Len(s[3].mvec) = Len(rep.matrix[1])}
    /\ proc = [p \in Procs |->
                 [obj |-> InsarNew(p), call |-> 1, pc |-> "call", step |-> 0,
                  x_shape |-> None, x |-> None, ret |-> None,
                  err |-> "none", ncoll |-> 0]]
    /\ comm = << >>
    /\ fate = "none"
    /\ net = << >>
    /\ sinks = << >>
    /\ store = << >>
    /\ nadded = 0
    /\ last = [op |-> "init"]
    /\ out = NoOut
    /\ err = "none"
    /\ calls = << >>

\* model.predict(mvec, data, chunk) of the driver on rank p, the whole call
\* with the setChunk calls it makes on the stack
PredictCall ==
    \E p \in Procs :
      /\ AtCall(p, "predict")
      /\ LET c == script[proc[p].call]
             r == predict(model[p], [s \in {"s1"} |-> proc[p].obj],
                          [s \in {"s1"} |-> h5], c.mvec, c.data, c.chunk,
                          FALSE, None)
         IN  /\ IF r.err # "none"
                THEN Raised(p, proc[p].obj, r.err)
                ELSE /\ proc' = [proc EXCEPT ![p] = Returned(p, proc[p].obj)]
                     /\ UNCHANGED fate
             /\ h5' = r.store["s1"]
             /\ calls' = IF p = 0
                         THEN Append(calls, [chunk |-> c.chunk,
                                             calls |-> r.calls,
                                             err |-> r.err])
                         ELSE calls
      /\ UNCHANGED <<script, comm, built, model, sinks, store, nadded, last,
                     out, err, net>>

DriverNext ==
    \/ Initialize
    \/ BarrierLeave
    \/ GetChunk
    \/ GetChunkBcastShape
    \/ GetChunkRecvShape
    \/ GetChunkBcastData
    \/ GetChunkRecvData
    \/ PredictCall
    \/ KillJob

\* The ranks of the group running the driver.
DriverSpec == DriverInit /\ [][DriverNext]_vars

\* --------------------------------------------- Network.py: the station network
\* longest time series handed to the filter
MaxObs == 4
\* largest kernel size handed to the filter
MaxKernel == 5
\* largest number of stations of a network
MaxStations == 4
\* largest npart handed to partitionStations
MaxPart == 3

\* the NaN fill of filt_data and of the data; every other value is >= 0
NaN == 0 - 1

\* Python's seq[a:b] on 0-based positions: a negative bound counts from the
\* end, and both bounds are clipped to the sequence
PySlice(seq, a, b) ==
    LET n  == Len(seq)
        lo == IF a < 0 THEN (IF a + n < 0 THEN 0 ELSE a + n)
              ELSE (IF a > n THEN n ELSE a)
        hi == IF b < 0 THEN (IF b + n < 0 THEN 0 ELSE b + n)
              ELSE (IF b > n THEN n ELSE b)
    IN  IF hi <= lo THEN << >> ELSE SubSeq(seq, lo + 1, hi)

\* scipy's nanmedian of a 1-D array: the median of the entries that are not
\* NaN, NaN when there are none. The result is held as TWICE the median, so
\* that the mean of the two middle entries of an even count stays an integer.
nanmedian(x) ==
    LET vals   == SelectSeq(x, LAMBDA v : v # NaN)
        n      == Len(vals)
        Kth(k) == CHOOSE v \in {vals[j] : j \in 1..n} :
                      /\ Cardinality({j \in 1..n : vals[j] < v}) < k
                      /\ Cardinality({j \in 1..n : vals[j] <= v}) >= k
    IN  IF n = 0 THEN NaN
        ELSE IF n % 2 = 1 THEN 2 * Kth((n + 1) \div 2)
        ELSE Kth(n \div 2) + Kth(n \div 2 + 1)

\* filt_data[i] = value, with numpy's indexing: a negative i counts from the
\* end, an i outside the array raises IndexError
StoreAt(f, i, value) ==
    LET n   == Len(f.filt_data)
        idx == IF i < 0 THEN i + n ELSE i
    IN  IF idx < 0 \/ idx >= n THEN [f EXCEPT !.err = "IndexError"]
        ELSE [f EXCEPT !.filt_data[idx + 1] = value]

\* one of the three loops of adaptiveMedianFilt: for i in range(i, stop),
\* filt_data[i] = nanmedian(dat[i-halfWindow:i+halfWindow+1]), halfWindow += step
RECURSIVE FiltLoop(_, _, _, _, _, _)
FiltLoop(f, dat, i, stop, halfWindow, step) ==
    IF i >= stop \/ f.err # "none" THEN f
    ELSE FiltLoop(StoreAt(f, i, nanmedian(PySlice(dat, i - halfWindow,
                                                   i + halfWindow + 1))),
                  dat, i + 1, stop, halfWindow + step, step)

\* Network.adaptiveMedianFilt: [err, filt_data]; filt_data holds twice the medians
adaptiveMedianFilt(dat, kernel_size) ==
    IF kernel_size % 2 # 1
    THEN [err |-> "AssertionError", filt_data |-> << >>]
    ELSE LET nobs      == Len(dat)
             filt0     == [err |-> "none", filt_data |-> [k \in 1..nobs |-> NaN]]
             beginning == FiltLoop(filt0, dat, 0, kernel_size \div 2, 0, 1)
             halfWindow == kernel_size \div 2
             middle    == FiltLoop(beginning, dat, halfWindow, nobs - halfWindow,
                                   halfWindow, 0)
             ending    == FiltLoop(middle, dat, nobs - (halfWindow - 1), nobs,
                                   halfWindow - 1, 0 - 1)
         IN  ending

\* Network.partitionStations on one rank: the slice it keeps in sub_names and
\* the procN it hands to allgather. npart = 0 stands for an omitted npart
\* too: `npart or self.size` treats None and 0 alike.
partitionStations(names, rank, size, npart) ==
    LET N            == IF npart = 0 THEN size ELSE npart
        nstat        == Len(names)
        nominal_load == nstat \div N
        procN        == IF rank = size - 1 THEN nstat - rank * nominal_load
                        ELSE nominal_load
        istart       == rank * nominal_load
    IN  [sub_names |-> PySlice(names, istart, istart + procN), procN |-> procN]

\* comm.allgather: the list of every rank's contribution, in rank order
allgather(size, contrib) == [r \in 1..size |-> contrib[r - 1]]

\* the time series handed to the filter: values and gaps
DatChoices == UNION {[1..n -> {NaN} \cup 0..MaxVal] : n \in 0..MaxObs}

\* no call made yet on the network
NetInit ==
    /\ net = [op |-> "init"]
    /\ h5 = << >>
    /\ script = << >>
    /\ proc = << >>
    /\ comm = << >>
    /\ fate = "none"
    /\ built = << >>
    /\ model = << >>
    /\ sinks = << >>
    /\ store = << >>
    /\ nadded = 0
    /\ last = [op |-> "init"]
    /\ out = NoOut
    /\ err = "none"
    /\ calls = << >>

\* a call of the static adaptiveMedianFilt; its result depends on nothing
\* but its arguments, so one call per run covers every call
AdaptiveMedianFilt ==
    /\ net.op = "init"
    /\ \E dat \in DatChoices, kernel_size \in 1..MaxKernel :
         net' = [op |-> "adaptiveMedianFilt", dat |-> dat,
                 kernel_size |-> kernel_size,
                 r |-> adaptiveMedianFilt(dat, kernel_size)]
    /\ UNCHANGED <<mvars, gvars>>

\* every rank of a group of `size` ranks calls partitionStations(npart) on
\* its Network of the same nstat stations; the call reads nothing an earlier
\* call wrote
PartitionStations ==
    /\ net.op = "init"
    /\ \E size \in 1..NProcs, nstat \in 0..MaxStations, npart \in 0..MaxPart :
         LET names == [k \in 1..nstat |-> k]
             part  == [rank \in 0..(size - 1) |->
                          partitionStations(names, rank, size, npart)]
         IN  net' = [op |-> "partitionStations", size |-> size, names |-> names,
                     npart |-> npart,
                     sub_names |-> [rank \in 0..(size - 1) |-> part[rank].sub_names],
                     ret |-> allgather(size, [rank \in 0..(size - 1) |-> part[rank].procN])]
    /\ UNCHANGED <<mvars, gvars>>

NetNext == AdaptiveMedianFilt \/ PartitionStations

NetSpec == NetInit /\ [][NetNext]_vars

\* ------------------------------------------------- helpers of the properties
\* ilist holds every index of old raised by n, in the same order, from
\* position skip + 1 on
ShiftedFrom(ilist, old, n, skip) ==
    /\ Len(ilist) = Len(old) + skip
    /\ \A k \in 1..Len(old) : ilist[skip + k] = old[k] + n

\* M is old with n zero columns in front, rows kept
LeftPadded(M, old, n) ==
    /\ Len(M) = Len(old)
    /\ \A i \in 1..Len(old) :
         /\ Len(M[i]) = Len(old[i]) + n
         /\ \A j \in 1..n : M[i][j] = 0
         /\ \A j \in 1..Len(old[i]) : M[i][n + j] = old[i][j]

\* what one addModulatingSplines(n) call, n > 0, makes of model m
SplinesAdded(m, after, n) ==
    /\ ShiftedFrom(after.isecular, m.isecular, n, 0)
    /\ ShiftedFrom(after.itransient, m.itransient, n, 0)
    /\ ShiftedFrom(after.istep, m.istep, n, 0)
    /\ ShiftedFrom(after.iseasonal, m.iseasonal, n, n)
    /\ \A k \in 1..n : after.iseasonal[k] = k - 1
    /\ after.npar = m.npar + n
    /\ Len(after.ifull) = after.npar
    /\ \A k \in 1..after.npar : after.ifull[k] = k - 1
    /\ LeftPadded(after.H, m.H, n)
    /\ ("G" \in DOMAIN after) = ("G" \in DOMAIN m)
    /\ "G" \in DOMAIN m => LeftPadded(after.G, m.G, n)

\* C1: every addModulatingSplines(n) call with n > 0 raises every index of
\* the four lists by n, puts 0..n-1 in front of seasonal, adds n to npar,
\* makes ifull 0..npar-1 and left-pads H (and G when present) with n zero
\* columns.
C1_AddShiftsAndPads ==
    [][(last'.op = "addModulatingSplines" /\ last'.nsplmod > 0)
          => SplinesAdded(model, model', last'.nsplmod)]_vars

\* C1's scenario: addModulatingSplines(2) on Npar=5, seasonal=[1].
C1_Witness ==
    /\ last.op = "addModulatingSplines"
    /\ last.nsplmod = 2
    /\ built.model.npar = 5
    /\ built.model.iseasonal = <<1>>
    /\ model.npar = 7
    /\ model.iseasonal = <<0, 1, 3>>
    /\ model.itransient = <<5, 6>>
    /\ model.H[2] = <<0, 0, 1, 1, 1, 0, 0>>
    /\ "G" \in DOMAIN model

\* the fields C2 compares
AdditiveFields ==
    {"isecular", "iseasonal", "itransient", "istep", "ifull", "npar",
     "nsecular", "nseasonal", "ntransient", "nstep", "nfull", "H", "G", "Nifg"}

\* C2 (state part): after any calls addModulatingSplines(n1), ...,
\* addModulatingSplines(nk) the index lists, npar, ifull, the sizes and H/G are
\* those of the single call addModulatingSplines(n1 + ... + nk) on the Model
\* as built.
C2_SameAsOneCall ==
    LET one == addModulatingSplines(built.model, nadded)
    IN  /\ DOMAIN model = DOMAIN one
        /\ \A f \in AdditiveFields \cap DOMAIN one : model[f] = one[f]

\* C2: addModulatingSplines is additive, and addModulatingSplines(0) changes
\* nothing of the Model.
C2_AdditiveNoOpAtZero ==
    /\ []C2_SameAsOneCall
    /\ [][(last'.op = "addModulatingSplines" /\ last'.nsplmod = 0)
            => model' = model]_vars

\* two calls with n1, n2 > 0 have been made, the second one last
C2_Witness ==
    /\ last.op = "addModulatingSplines"
    /\ last.nsplmod > 0
    /\ nadded > last.nsplmod
    /\ model.iseasonal[1] = 0
    /\ Len(model.iseasonal) = Len(built.model.iseasonal) + nadded

\* C3: each cached count is the length of its index list, and nfull = npar.
C3_SizesMatchLists ==
    /\ model.nsecular = Len(model.isecular)
    /\ model.nseasonal = Len(model.iseasonal)
    /\ model.ntransient = Len(model.itransient)
    /\ model.nstep = Len(model.istep)
    /\ model.nfull = Len(model.ifull)
    /\ model.nfull = model.npar

\* a predict call after splines were added and the range was set
C3_Witness ==
    /\ last.op = "predict"
    /\ nadded > 0
    /\ model.jstart # 0
    /\ model.nseasonal = Len(built.model.iseasonal) + nadded

\* C4: H has shape (Ntime, npar); G exists exactly when Jmat was given, has
\* shape (Nifg, npar) and equals Jmat @ H.
C4_ShapesAndProjection ==
    /\ Len(model.H) = model.Ntime
    /\ \A i \in 1..Len(model.H) : Len(model.H[i]) = model.npar
    /\ ("G" \in DOMAIN model) = (built.Jmat # None)
    /\ "G" \in DOMAIN model =>
         /\ model.Nifg = Len(built.Jmat)
         /\ Len(model.G) = model.Nifg
         /\ \A i \in 1..Len(model.G) : Len(model.G[i]) = model.npar
         /\ model.G = Dot(built.Jmat, model.H)

\* a Model built with Jmat after a completed addModulatingSplines(n), n > 0
C4_Witness ==
    /\ last.op = "addModulatingSplines"
    /\ last.nsplmod > 0
    /\ "G" \in DOMAIN model
    /\ model.Nifg # model.Ntime
    /\ Len(model.G[1]) = Len(built.model.G[1]) + nadded

\* ---------------------------------------------------------------- predict
\* how often column j occurs in the index list idx
Count(idx, j) == Cardinality({k \in 1..Len(idx) : idx[k] = j})

\* sum over all columns j of w[j] * D[i, j] * mvec[j, m, n]
WeightedSum(D, mvec, w, i, m, n) ==
    SumTo([j \in 1..Len(D[i]) |-> w[j] * D[i][j] * mvec[j][m][n]], Len(D[i]))

\* the last call was predict on the coordinator with inputs it accepts
PredictAccepted ==
    /\ last.op = "predict"
    /\ model.rank = 0
    /\ Len(last.mvec) = model.npar
    /\ last.insar => "G" \in DOMAIN model

\* the design matrix the last predict call had to use
UsedMatrix == IF last.insar THEN model.G ELSE model.H

\* arr has the rows of UsedMatrix and the pixels of the chunk of the last call
HasChunkShape(arr) ==
    /\ Len(arr) = Len(UsedMatrix)
    /\ \A i \in 1..Len(arr) :
         /\ Len(arr[i]) = SliceLen(last.chunk[1])
         /\ \A m \in 1..Len(arr[i]) : Len(arr[i][m]) = SliceLen(last.chunk[2])

\* out[c] is the contraction of UsedMatrix with mvec over the index list idx
IsContraction(c, idx) ==
    /\ HasChunkShape(out[c])
    /\ \A i \in 1..Len(out[c]) :
         \A m \in 1..Len(out[c][i]) :
           \A n \in 1..Len(out[c][i][m]) :
             out[c][i][m][n] =
               WeightedSum(UsedMatrix, last.mvec,
                           [j \in 1..model.npar |-> Count(idx, j - 1)], i, m, n)

\* C5: on the coordinator, each of secular, seasonal (without Gmod) and
\* transient is sum_j D[i,j] * mvec[j,y,x] over the category's index list,
\* D being H for insar=False and G for insar=True.
C5_CategoryContraction ==
    PredictAccepted =>
        /\ out # NoOut
        /\ IsContraction("secular", model.isecular)
        /\ IsContraction("transient", model.itransient)
        /\ last.Gmod = None => IsContraction("seasonal", model.iseasonal)

\* C5's scenario: H 3 x 5, mvec = [2,3,0,1,1] on one pixel.
C5_Witness ==
    /\ PredictAccepted
    /\ ~last.insar
    /\ last.Gmod = None
    /\ model.H = RepA.matrix
    /\ last.mvec = [j \in 1..5 |-> << <<ScenarioVec[j]>> >>]
    /\ out.secular   = << << <<2>> >>, << <<2>> >>, << <<2>> >> >>
    /\ out.seasonal  = << << <<0>> >>, << <<3>> >>, << <<0>> >> >>
    /\ out.transient = << << <<0>> >>, << <<0>> >>, << <<2>> >> >>

\* a predict call in the interferogram domain, after splines were added
C5_WitnessInsar ==
    /\ PredictAccepted
    /\ last.insar
    /\ nadded > 0
    /\ last.Gmod = None
    /\ \E i \in 1..Len(out.seasonal) : out.seasonal[i][1][1] < 0

\* C6: full is secular + seasonal + transient at every (i, y, x), and (without
\* Gmod) it is the sum over the columns outside the step list only.
C6_FullIsSumWithoutStep ==
    (last.op = "predict" /\ out # NoOut) =>
        /\ HasChunkShape(out.full)
        /\ \A i \in 1..Len(out.full) :
             \A m \in 1..Len(out.full[i]) :
               \A n \in 1..Len(out.full[i][m]) :
                 /\ out.full[i][m][n] =
                      out.secular[i][m][n] + out.seasonal[i][m][n]
                        + out.transient[i][m][n]
                 /\ last.Gmod = None =>
                      out.full[i][m][n] =
                        WeightedSum(UsedMatrix, last.mvec,
                          [j \in 1..model.npar |->
                             IF Count(model.istep, j - 1) > 0 THEN 0
                             ELSE Count(model.isecular, j - 1)
                                  + Count(model.iseasonal, j - 1)
                                  + Count(model.itransient, j - 1)],
                          i, m, n)

\* a predict call whose mvec is not zero at a step column that is not zero
C6_Witness ==
    /\ PredictAccepted
    /\ model.istep # << >>
    /\ \E i \in 1..Len(UsedMatrix) :
         UsedMatrix[i][model.istep[1] + 1] * last.mvec[model.istep[1] + 1][1][1] # 0
    /\ \E i \in 1..Len(out.full) : out.full[i][1][1] # 0

\* C7 (as claimed): for every (category, sink) item of data whose sink was
\* opened by initialize with recon=True and has the rows of the
\* reconstruction, predict calls setChunk with the reconstruction under
\* 'recon' and then with mvec[ind] under 'par', both are stored, and getChunk
\* returns them afterwards (for the last item written to that sink).
C7_ReconAndParStored ==
    PredictAccepted =>
      \A k \in 1..Len(last.data) :
        LET key  == last.data[k].key
            sink == last.data[k].sink
        IN  ( /\ key \in {"full", "secular", "seasonal", "transient"}
              /\ sinks[sink].recon
              /\ Len(store[sink]["recon"]) = Len(out[key])
              /\ \A k2 \in 1..Len(last.data) : k2 # k => last.data[k2].sink # sink )
            =>
            /\ \E c \in 1..Len(calls) - 1 :
                 /\ calls[c].sink = sink /\ calls[c].dtype = "recon"
                 /\ calls[c].dat = out[key] /\ calls[c].err = "none"
                 /\ calls[c + 1].sink = sink /\ calls[c + 1].dtype = "par"
                 /\ calls[c + 1].dat = TakeRows(last.mvec, IndexList(model, key))
                 /\ calls[c + 1].err = "none"
            /\ getChunkLoad(sinks[sink], store[sink], last.chunk[1],
                            last.chunk[2], "recon")
                 = [x |-> out[key], err |-> "none"]
            /\ getChunkLoad(sinks[sink], store[sink], last.chunk[1],
                            last.chunk[2], "par")
                 = [x |-> TakeRows(last.mvec, IndexList(model, key)),
                    err |-> "none"]

\* C8: predict on a process that is not the coordinator returns without an
\* exception, computes nothing, calls setChunk on no sink and changes neither
\* the Model nor any file, whatever its arguments.
C8_WorkerPredictIsNoOp ==
    [][(last'.op = "predict" /\ model.rank # 0)
          => /\ err' = "none"
             /\ out' = NoOut
             /\ calls' = << >>
             /\ store' = store
             /\ sinks' = sinks
             /\ model' = model]_vars

\* a worker's call with a wrong leading dimension, insar=True without G and
\* an unknown category
C8_Witness ==
    /\ last.op = "predict"
    /\ model.rank # 0
    /\ Len(last.mvec) # model.npar
    /\ last.insar
    /\ "G" \notin DOMAIN model
    /\ \E k \in 1..Len(last.data) : last.data[k].key = "step"
    /\ err = "none"

\* C9: on the coordinator, an mvec whose leading dimension is not npar makes
\* predict raise the assertion's error before any setChunk call: no file
\* changes and no result is computed.
C9_WrongLeadingDimFails ==
    [][(last'.op = "predict" /\ model.rank = 0
          /\ Len(last'.mvec) # model.npar)
          => /\ err' = "AssertionError"
             /\ out' = NoOut
             /\ calls' = << >>
             /\ store' = store]_vars

\* an mvec sized for the npar before addModulatingSplines, with sinks to write
C9_Witness ==
    /\ last.op = "predict"
    /\ model.rank = 0
    /\ nadded > 0
    /\ Len(last.mvec) = built.model.npar
    /\ Len(last.data) = 2
    /\ err = "AssertionError"

\* C10 (as claimed): on the coordinator, insar=True on a Model built without
\* Jmat raises the missing-matrix error before any write, for every mvec.
C10_MissingMatrixForEveryMvec ==
    [][(last'.op = "predict" /\ model.rank = 0 /\ last'.insar
          /\ "G" \notin DOMAIN model)
          => /\ err' = "AttributeError"
             /\ calls' = << >>
             /\ store' = store]_vars

\* C10 (amended): the call fails before any write for every mvec; the error
\* is the missing-matrix error when the leading dimension of mvec is npar and
\* the assertion's error otherwise.
C10_MissingMatrixAfterDimCheck ==
    [][(last'.op = "predict" /\ model.rank = 0 /\ last'.insar
          /\ "G" \notin DOMAIN model)
          => /\ err' = IF Len(last'.mvec) = model.npar
                       THEN "AttributeError" ELSE "AssertionError"
             /\ out' = NoOut
             /\ calls' = << >>
             /\ store' = store]_vars

\* insar=True without G, an mvec of the right leading dimension, sinks to write
C10_Witness ==
    /\ last.op = "predict"
    /\ model.rank = 0
    /\ last.insar
    /\ "G" \notin DOMAIN model
    /\ Len(last.mvec) = model.npar
    /\ Len(last.data) > 0
    /\ err = "AttributeError"

\* ------------------------------------------------ properties of the group
\* the datasets a stack created with the given recon flag is to hold: its
\* primary one, the weights and the parameters
RolesOf(recon) == {IF recon THEN "recon" ELSE "igram", "weight", "par"}

\* the script creates the stack, and its setChunk and getChunk name the
\* same dataset
RoundTripScript ==
    /\ script[1].op = "initialize"
    /\ script[2].dtype = script[3].dtype

\* C11: on a stack that initialize has opened, for each dataset of the
\* stack among igram, weight, par and recon and each in-bounds chunk,
\* setChunk(x) called by every rank followed by the collective getChunk of
\* the same chunk and name raises on no rank and returns x on rank 0 and
\* on every worker.
C11_RoundTripEveryRole ==
    (RoundTripScript /\ script[2].dtype \in RolesOf(script[1].recon)
        /\ proc[0].call >= 2)
        => /\ proc[0].err = "none"
           /\ \A p \in Procs : Finished(p) => proc[p].ret = script[2].dat

\* The round trip of C11 for the names whose attribute rank 0 has bound:
\* every rank gets x back.
RoundTripBoundRoles ==
    (RoundTripScript /\ script[2].dtype \in DOMAIN attr_dict
        /\ proc[0].call >= 2
        /\ attr_dict[script[2].dtype] \in DOMAIN proc[0].obj)
        => /\ proc[0].err = "none"
           /\ \A p \in Procs : Finished(p) => proc[p].ret = script[2].dat

\* the dataset getChunk reads on rank 0, when the call gets that far
ReadKey == proc[0].obj[attr_dict[script[Len(script)].dtype]]

\* C12: in every collective getChunk rank 0 slices array[:, slice_y,
\* slice_x] and enters two broadcasts, of the shape and then of the values;
\* a worker holds a buffer of exactly the shape broadcast before it enters
\* the broadcast of the values; the array returned is the same on every
\* rank.
C12_ShapeThenData ==
    LET c == script[Len(script)]
    IN  /\ proc[0].pc \in {"bcastShape", "bcastData"}
            => /\ proc[0].x = ReadSlice(h5[ReadKey], c.slice_y, c.slice_x)
               /\ proc[0].x_shape = <<Len(h5[ReadKey]), SliceLen(c.slice_y),
                                      SliceLen(c.slice_x)>>
        /\ proc[0].pc = "bcastData"
            => comm[Len(comm)] = [kind |-> "bcast", val |-> proc[0].x_shape]
        /\ (Finished(0) /\ proc[0].err = "none")
            => /\ comm[Len(comm) - 1] =
                    [kind |-> "bcast", val |-> Shape3(proc[0].ret)]
               /\ comm[Len(comm)] = [kind |-> "bcast", val |-> proc[0].ret]
               /\ proc[0].ret = ReadSlice(h5[ReadKey], c.slice_y, c.slice_x)
        /\ \A w \in Workers :
             /\ proc[w].pc = "recvData"
                 => /\ proc[w].x_shape = comm[proc[w].ncoll].val
                    /\ Shape3(proc[w].x) = proc[w].x_shape
                    /\ proc[w].x_shape = proc[0].x_shape
             /\ Finished(w) => proc[w].ret = proc[0].ret

\* every rank has returned from getChunk with a block of the stack
C12_Witness ==
    /\ \A p \in Procs : Finished(p) /\ proc[p].ret # None
    /\ proc[1].ret[1][1][1] # 0

\* the attributes that hold the file or one of its datasets
HandleAttrs == {"h5file", "_igram", "_recon", "_data", "_weights", "_par"}

\* C13: the file and its datasets are created and changed by rank 0 only;
\* setChunk on a worker changes no dataset and nothing of the worker,
\* enters no collective and raises nothing, whatever name it is given; no
\* worker holds a handle to the file after initialize, loadStationH5,
\* getChunk or setChunk.
C13_SingleWriter ==
    [][ /\ h5' # h5 => proc'[0] # proc[0]
        /\ \A w \in Workers :
             /\ proc'[w] # proc[w] => h5' = h5
             /\ (AtCall(w, "setChunk") /\ proc'[w] # proc[w]
                    /\ proc'[w].pc # "aborted")
                 => /\ proc'[w] = [proc[w] EXCEPT !.call = @ + 1]
                    /\ comm' = comm
             /\ DOMAIN proc'[w].obj \cap HandleAttrs = {} ]_vars

\* a worker has returned from setChunk of a name that is no dataset's, and
\* rank 0 has written the file
C13_Witness ==
    /\ script[1].op = "initialize"
    /\ script[2].dtype = "phase"
    /\ h5 # << >>
    /\ \E w \in Workers : proc[w].call = 3 /\ proc[w].err = "none"

\* the dataset initialize creates as the primary one of the script's stack
PrimaryKey == IF script[1].recon THEN "recon" ELSE "igram"

\* rank q has entered initialize: it has made the assignments the call
\* starts with
Entered(q) == "chunk_shape" \in DOMAIN proc[q].obj

\* C14: no rank returns from the collective initialize before rank 0 has
\* created the primary and the weights dataset and written tdec, dtype and
\* chunk_shape, nor before every rank has entered initialize.
C14_InitializeBarrier ==
    script[1].op = "initialize"
        => \A p \in Procs :
             proc[p].call >= 2
                 => /\ {PrimaryKey, "weights", "tdec", "dtype", "chunk_shape"}
                          \subseteq DOMAIN h5
                    /\ \A q \in Procs : Entered(q)

\* a worker has returned from initialize while another rank is still in the
\* barrier
C14_Witness ==
    /\ script[1].op = "initialize"
    /\ \E w \in Workers : proc[w].call >= 2
    /\ \E q \in Procs : proc[q].pc = "Barrier"
    /\ "tdec" \in DOMAIN h5

\* C15: when every rank calls initialize in write mode on a path that
\* can be written, then for each value of recon and with or without a
\* StationGenerator rank 0 finishes creating the datasets and no rank is
\* left in initialize: none raises there, and as long as one is inside,
\* some rank can take a step.
C15_InitializeCompletes ==
    (script[1].op = "initialize" /\ script[1].writable)
        => /\ \A p \in Procs :
                proc[p].call = 1 => proc[p].pc \in {"call", "Barrier"}
           /\ (\E p \in Procs : proc[p].call = 1) => ENABLED GroupNext

\* the primary dataset attributes bound on an object
PrimaryRoles(obj) == {"_igram", "_recon"} \cap DOMAIN obj

\* C16: once initialize or loadStationH5 has returned on rank 0 the stack
\* has exactly one of the handles igram and recon; initialize binds recon
\* exactly when recon is set; loadStationH5 binds igram exactly when the
\* file holds igram, tdec, tinsar and Jmat and recon otherwise, no igram
\* handle staying bound then; the handle bound does not change afterwards.
C16_OnePrimaryRole ==
    [][ proc'[0].call >= 2
          => /\ Cardinality(PrimaryRoles(proc'[0].obj)) = 1
             /\ script[1].op = "initialize"
                  => ("_recon" \in DOMAIN proc'[0].obj <=> script[1].recon)
             /\ script[1].op = "loadStationH5"
                  => ("_igram" \in DOMAIN proc'[0].obj
                         <=> RawKeys \subseteq DOMAIN h5)
             /\ proc[0].call >= 2
                  => PrimaryRoles(proc'[0].obj) = PrimaryRoles(proc[0].obj)
      ]_vars

\* the file to load has neither the keys of the raw shape nor those of the
\* reconstruction shape
NeitherShape ==
    /\ script[1].op = "loadStationH5"
    /\ ~(RawKeys \subseteq DOMAIN h5)
    /\ ~(ReconKeys \subseteq DOMAIN h5)

\* C17: loadStationH5 of a file that has neither the raw keys (igram, tdec,
\* tinsar, Jmat) nor the reconstruction keys (recon, tdec) fails on rank 0
\* with the error of a missing key before anything is broadcast; the call
\* returns on no rank, whatever it had bound by then.
C17_NeitherShapeFails ==
    NeitherShape
        => /\ proc[0].pc \in {"call", "dead"}
           /\ proc[0].pc = "dead" => proc[0].err = "KeyError"
           /\ comm = << >>
           /\ \A p \in Procs : proc[p].call = 1

\* rank 0 has failed on such a file after it had bound the igram handle
C17_Witness ==
    /\ NeitherShape
    /\ proc[0].pc = "dead"
    /\ "_igram" \in DOMAIN proc[0].obj

\* C18: once the collective loadStationH5 has returned on a rank, the rank
\* holds the time axis, the data shape with (Ny, Nx, nstat) and the chunk
\* geometry rank 0 read from the file, and no worker has opened the file
\* or holds a dataset of it.
C18_LoadedMetadataAgrees ==
    script[1].op = "loadStationH5"
        => \A p \in Procs :
             /\ p # 0 => DOMAIN proc[p].obj \cap HandleAttrs = {}
             /\ proc[p].call >= 2
                 => LET o    == proc[p].obj
                        data == h5[proc[0].obj["_data"]]
                    IN  /\ o.tdec = h5["tdec"]
                        /\ o.chunk_shape = h5["chunk_shape"]
                        /\ o.data_shape = Shape3(data)
                        /\ o.Ny = Len(data[1])
                        /\ o.Nx = Len(data[1][1])
                        /\ o.nstat = o.Ny * o.Nx
                        /\ o.tdec = proc[0].obj.tdec
                        /\ o.Jmat = proc[0].obj.Jmat

\* every rank has returned from loadStationH5 of a file of the raw shape
C18_Witness ==
    /\ script[1].op = "loadStationH5"
    /\ \A p \in Procs : proc[p].call >= 2
    /\ "_igram" \in DOMAIN proc[0].obj
    /\ proc[1].obj.Jmat # None

\* rank 0 is about to call getChunk or setChunk with a name that is none
\* of the four, or one whose attribute it has not bound
BadRoleCall ==
    /\ \/ AtCall(0, "getChunk")
       \/ AtCall(0, "setChunk")
    /\ LET d == script[proc[0].call].dtype
       IN  \/ d \notin DOMAIN attr_dict
           \/ attr_dict[d] \notin DOMAIN proc[0].obj

\* C19 as stated: getChunk, and setChunk on rank 0, called with a name that
\* names no dataset of the stack (none of the four, or one of them that the
\* stack lacks) fails with a key error and leaves the file as it was.
C19_BadRoleKeyError ==
    [][ (BadRoleCall /\ proc'[0] # proc[0] /\ proc'[0].pc # "aborted")
          => /\ proc'[0].pc = "dead"
             /\ proc'[0].err = "KeyError"
             /\ h5' = h5 ]_vars

\* C19: on rank 0 getChunk and setChunk called with a name that names no
\* dataset of the stack raise to the caller and leave the file as it was:
\* KeyError for a name that is none of the four, AttributeError for one of
\* the four whose dataset the stack lacks.
C19_BadRoleRaises ==
    [][ (BadRoleCall /\ proc'[0] # proc[0] /\ proc'[0].pc # "aborted")
          => /\ proc'[0].pc = "dead"
             /\ proc'[0].err =
                  (IF script[proc[0].call].dtype \in DOMAIN attr_dict
                   THEN "AttributeError" ELSE "KeyError")
             /\ proc'[0].obj = proc[0].obj
             /\ h5' = h5 ]_vars

\* getChunk('recon') has raised AttributeError on rank 0 of an igram stack
C19_Witness ==
    /\ script[1].op = "initialize"
    /\ proc[0].call = 3
    /\ script[3].dtype = "recon"
    /\ proc[0].err = "AttributeError"
    /\ "igram" \in DOMAIN h5

\* rank w has ended: it has returned from its last call or was killed
Ended(w) == Finished(w) \/ proc[w].pc \in {"dead", "aborted"}

\* C20: whenever rank 0 fails inside a collective (getChunk with a bad
\* name, loadStationH5 of a file of neither shape, initialize failing while
\* it creates the datasets), no worker that entered the collective stays
\* blocked: as long as a worker has not ended, some rank can take a step.
C20_FaultReachesWorkers ==
    (proc[0].pc = "dead" /\ script[proc[0].call].op # "setChunk")
        => \/ \A w \in Workers : Ended(w)
           \/ ENABLED GroupNext

\* ----------------------------------------------- properties of the driver
\* the chunk a call of the driver's script works on: calls 2 and 3 the
\* first, calls 4 and 5 the second
ChunkNo(i) == i \div 2

\* the chunks a rank in the state pr of the driver has got something of:
\* those whose getChunk has returned and the one whose shape it holds
ChunksSeen(pr) ==
    IF pr.pc = "recvData" THEN ChunkNo(pr.call) ELSE ChunkNo(pr.call - 1)

\* rank 0 takes a step of the call op it is about to make
RootStarts(op) ==
    /\ AtCall(0, op)
    /\ proc'[0] # proc[0]
    /\ proc'[0].pc # "aborted"

C22_OwnershipDefaultsToFullRange ==
    [][ /\ (last'.op # "setOwnershipRange"
              /\ model.jstart = 0 /\ model.jend = model.npar)
            => (model'.jstart = 0 /\ model'.jend = model'.npar)
        /\ last'.op = "setOwnershipRange"
            => model' = [model EXCEPT !.jstart = last'.jstart,
                                      !.jend = last'.jend]
      ]_vars

\* the elements of a list of indices
Elems(ilist) == {ilist[k] : k \in 1..Len(ilist)}

\* the four lists of indices are duplicate-free, pairwise disjoint and
\* within [0, npar)
DisjointPartition(isecular, iseasonal, itransient, istep, npar) ==
    LET lists == <<isecular, iseasonal, itransient, istep>>
    IN  /\ \A a \in 1..4 :
             /\ Cardinality(Elems(lists[a])) = Len(lists[a])
             /\ Elems(lists[a]) \subseteq 0..(npar - 1)
        /\ \A a, b \in 1..4 :
             a # b => Elems(lists[a]) \cap Elems(lists[b]) = {}

\* C23: when the four lists the representation returns are pairwise
\* disjoint, duplicate-free and within [0, Npar), then after any sequence of
\* addModulatingSplines calls the Model's lists are so for the grown npar,
\* and every column below the total number of splines injected is in
\* iseasonal and in no other list.
C23_PartitionStaysDisjoint ==
    DisjointPartition(built.rep.secular, built.rep.seasonal,
                      built.rep.transient, built.rep.step,
                      Len(built.rep.matrix[1]))
        => /\ DisjointPartition(model.isecular, model.iseasonal,
                                model.itransient, model.istep, model.npar)
           /\ \A j \in 0..(nadded - 1) :
                /\ j \in Elems(model.iseasonal)
                /\ j \notin Elems(model.isecular) \cup Elems(model.itransient)
                               \cup Elems(model.istep)

\* more columns were injected than one call can inject, on a Model with
\* all four kinds of columns or a step column
C23_Witness ==
    /\ nadded > MaxSplines
    /\ model.npar = Len(built.rep.matrix[1]) + nadded
    /\ Len(model.iseasonal) = Len(built.rep.seasonal) + nadded
    /\ Len(model.istep) > 0

\* ------------------------------------------ further properties of the group
\* every rank has made every call of the script
AllFinished == \A p \in Procs : Finished(p)

\* how far rank p has come: the calls it is past, and its place in the
\* call it is in
Position(p) ==
    LET pc == proc[p].pc
    IN  5 * proc[p].call
          + (CASE pc = "call"                       -> 0
               [] pc = "bcast"                      -> proc[p].step
               [] pc \in {"bcastShape", "recvShape"} -> 1
               [] pc \in {"bcastData", "recvData"}   -> 2
               [] OTHER                             -> 1)

\* the positions of all ranks together
Progress == SumTo([k \in 1..NProcs |-> Position(k - 1)], NProcs)

\* the collective a waiting rank is in
WaitsFor(p) ==
    CASE proc[p].pc = "Barrier"                            -> "Barrier"
      [] proc[p].pc \in {"bcast", "recvShape", "recvData"} -> "bcast"
      [] OTHER                                             -> "none"

\* As long as rank 0 has not raised: no worker raises or is killed, a
\* waiting worker finds the collective of its own kind at its place in the
\* sequence of rank 0, and unless every rank has made all its calls some
\* rank can take a step.
NoRankStuck ==
    proc[0].pc # "dead"
        => /\ fate = "none"
           /\ \A w \in Workers :
                /\ proc[w].pc \notin {"dead", "aborted"}
                /\ (WaitsFor(w) # "none" /\ Len(comm) > proc[w].ncoll)
                     => comm[proc[w].ncoll + 1].kind = WaitsFor(w)
           /\ AllFinished \/ ENABLED GroupNext

\* C24: when every rank makes the same finite sequence of initialize or
\* loadStationH5, getChunk and setChunk calls and rank 0 raises in none,
\* every call returns on every rank and the sequence completes: no rank is
\* ever left in a broadcast or a barrier the others do not join, and every
\* step brings the group further.
C24_LockstepCompletes ==
    /\ []NoRankStuck
    /\ [][proc'[0].pc # "dead" => Progress' > Progress]_vars

\* every rank has come through initialize, setChunk and getChunk and holds
\* the block written
C24_Witness ==
    /\ AllFinished
    /\ script[1].op = "initialize"
    /\ \A p \in Procs : proc[p].ncoll > 2 /\ proc[p].ret = script[2].dat

\* the half-width the filter is said to use at index i
SymmetricHalfWidth(i, nobs, kernel_size) ==
    LET a == IF i < nobs - 1 - i THEN i ELSE nobs - 1 - i
    IN  IF a < kernel_size \div 2 THEN a ELSE kernel_size \div 2

\* C25: adaptiveMedianFilt(dat, k) with odd k <= len(dat) gives every output
\* index i the median of the window centred on i with half-width
\* min(i, nobs-1-i, k//2); no index is skipped and left at the NaN fill.
C25_EveryIndexSymmetricMedian ==
    (/\ net.op = "adaptiveMedianFilt"
     /\ net.kernel_size % 2 = 1
     /\ net.kernel_size <= Len(net.dat))
    => /\ net.r.err = "none"
       /\ Len(net.r.filt_data) = Len(net.dat)
       /\ \A i \in 0..(Len(net.dat) - 1) :
            LET hw == SymmetricHalfWidth(i, Len(net.dat), net.kernel_size)
            IN  net.r.filt_data[i + 1] =
                    nanmedian(SubSeq(net.dat, i - hw + 1, i + hw + 1))

\* the concatenation of the slices of ranks 0..n-1
RECURSIVE ConcatSlices(_, _)
ConcatSlices(slices, n) ==
    IF n = 0 THEN << >> ELSE ConcatSlices(slices, n - 1) \o slices[n - 1]

\* C26: when every rank of a group calls partitionStations(npart), npart
\* omitted or positive, the slices taken in rank order are the station list
\* (contiguous, disjoint, each station exactly once), and entry r of the
\* returned list is the number of names rank r holds, non-negative, the
\* entries summing to nstat.
C26_PartitionCoversStations ==
    net.op = "partitionStations"
    => /\ ConcatSlices(net.sub_names, net.size) = net.names
       /\ \A r \in 0..(net.size - 1) :
            /\ net.ret[r + 1] = Len(net.sub_names[r])
            /\ net.ret[r + 1] >= 0
       /\ SumTo(net.ret, net.size) = Len(net.names)

====
